---- MODULE Spec2Model ----
(***************************************************************************)
(* Model of the socket.io signalling relay of src/index.js: the presence   *)
(* list `onlineUsers`, the call map `activeCalls`, and one action per      *)
(* socket event handler.  Every handler runs to completion before the next *)
(* event is taken (single Node.js event loop).                             *)
(*                                                                         *)
(* Identifiers are integers: user ids are 1..MaxUsers, socket ids are      *)
(* 101..100+MaxSockets (socket.io never reuses an id), and None stands for *)
(* the JavaScript value `undefined`.  The relayed blobs (signal, email,    *)
(* profilepic) are never inspected by the server and are left out of the   *)
(* payloads.                                                               *)
(***************************************************************************)
EXTENDS Integers, Sequences, FiniteSets, TLC

MaxUsers == 2
MaxSockets == 3

None == 0
Users == 1..MaxUsers
Sockets == {100 + i : i \in 1..MaxSockets}
Names == {"n1", "n2"}

VARIABLES
    opened,       \* number of connections accepted so far (ids 101..100+opened)
    open,         \* ids of the sockets that are connected
    rooms,        \* rooms[s]: the rooms socket s joined with socket.join(user.id)
    onlineUsers,  \* the array of {userId, name, socketId}
    activeCalls,  \* the Map: key -> {with, socketId}
    emitted,      \* the events delivered by the handler that ran last
    thrown,       \* TRUE once a handler threw (uncaught: the process is gone)
    last,         \* the event handled last: [op, socket, data, left]
    ringing,      \* history: ringing[t] is the socket whose offer reached t first and is unanswered
    scn           \* history: progress through the end-to-end scenario

vars == <<opened, open, rooms, onlineUsers, activeCalls, emitted, thrown, last,
          ringing, scn>>

\* An event payload.  present = FALSE is a missing payload (undefined).
Payload(present, id, name, callToUserId, to, from) ==
    [present |-> present, id |-> id, name |-> name,
     callToUserId |-> callToUserId, to |-> to, from |-> from]

NoData == Payload(FALSE, None, "n1", None, None, None)

\* One delivered event: its name, the socket it reaches, and its payload.
Ev(event, to, from, users) ==
    [event |-> event, to |-> to, from |-> from, users |-> users]

\* onlineUsers.find((u) => u.userId === id): the index of the first entry
\* with that user id, 0 if there is none.
FindUser(list, id) ==
    IF \E i \in 1..Len(list) : list[i].userId = id
    THEN CHOOSE i \in 1..Len(list) :
            list[i].userId = id /\ \A j \in 1..(i - 1) : list[j].userId # id
    ELSE 0

\* onlineUsers.find((u) => u.socketId === socket.id)
FindSocket(list, s) ==
    IF \E i \in 1..Len(list) : list[i].socketId = s
    THEN CHOOSE i \in 1..Len(list) :
            list[i].socketId = s /\ \A j \in 1..(i - 1) : list[j].socketId # s
    ELSE 0

\* io.to(room): the connected sockets in a room.  Every socket is in the room
\* named by its own id and in the rooms it joined.
InRoom(room) == {t \in open : t = room \/ room \in rooms[t]}

\* io.to(room).emit(event, {from})
EmitTo(room, event, from) == {Ev(event, t, from, <<>>) : t \in InRoom(room)}

\* Variant of EmitAll that reaches only the sockets named in the list.
EmitAll_Registered(socks, event, from, list) ==
    {Ev(event, t, from, list) :
        t \in {x \in socks : \E i \in 1..Len(list) : list[i].socketId = x}}

\* io.emit(event, list) over a set of connected sockets
EmitAll(socks, event, from, list) == {Ev(event, t, from, list) : t \in socks}

\* activeCalls.set(key, value)
MapSet(m, key, value) ==
    [k \in DOMAIN m \cup {key} |-> IF k = key THEN value ELSE m[k]]

\* activeCalls.delete(key)
MapDelete(m, key) == [k \in DOMAIN m \ {key} |-> m[k]]

\* activeCalls.has(key)
MapHas(m, key) == key \in DOMAIN m

EmptyMap == [k \in {} |-> [with |-> None, socketId |-> None]]

Init ==
    /\ opened = 0
    /\ open = {}
    /\ rooms = [s \in Sockets |-> {}]
    /\ onlineUsers = <<>>
    /\ activeCalls = EmptyMap
    /\ emitted = {}
    /\ thrown = FALSE
    /\ last = [op |-> "init", socket |-> None, data |-> NoData, left |-> {}]
    /\ ringing = [s \in Sockets |-> None]
    /\ scn = 0

\* The end-to-end scenario of the specification, as the events a run must
\* handle in this order: user 1 (A) on socket 101, user 2 (B) on socket 102.
ScenarioStep(k, ev) ==
    CASE k = 1 -> ev.op = "connection" /\ ev.socket = 101
      [] k = 2 -> ev.op = "connection" /\ ev.socket = 102
      [] k = 3 -> ev.op = "join" /\ ev.socket = 101 /\ ev.data.present /\ ev.data.id = 1
      [] k = 4 -> ev.op = "join" /\ ev.socket = 102 /\ ev.data.present /\ ev.data.id = 2
      [] k = 5 -> /\ ev.op = "callToUser" /\ ev.socket = 101 /\ ev.data.present
                  /\ ev.data.callToUserId = 2 /\ ev.data.from = 1
      [] k = 6 -> /\ ev.op = "answeredCall" /\ ev.socket = 102 /\ ev.data.present
                  /\ ev.data.to = 101 /\ ev.data.from = 1
      [] k = 7 -> /\ ev.op = "call-ended" /\ ev.socket = 101 /\ ev.data.present
                  /\ ev.data.to = 102
      [] k = 8 -> ev.op = "disconnect" /\ ev.socket = 102
      [] OTHER -> FALSE

\* scn counts the scenario's events handled so far, -1 once the run left it.
Advance(k, ev) == IF k >= 0 /\ ScenarioStep(k + 1, ev) THEN k + 1 ELSE -1

\* Bookkeeping of the offers (callToUser events) that reached a socket:
\* an offer to t is open until t accepts, rejects, ends or disconnects, or
\* until its caller ends or disconnects.
Offered(r, s, evs) ==
    [t \in Sockets |->
        IF r[t] = None /\ \E e \in evs : e.event = "callToUser" /\ e.to = t
        THEN s ELSE r[t]]

Answered(r, s) == [r EXCEPT ![s] = None]

Cancelled(r, s) == [t \in Sockets |-> IF t = s \/ r[t] = s THEN None ELSE r[t]]

\* The socket ids issued so far; a client can name no other.
Issued == {100 + i : i \in 1..opened}

\* A client names a connection only by an id the server issued.
Nameable(data) == data.to \in Issued \cup {None}

\* An event as handled; `left` is filled by a disconnect only.
Event(op, s, data) == [op |-> op, socket |-> s, data |-> data, left |-> {}]

\* A handler that throws: nothing was emitted or written before the throw.
Throw(op, s) ==
    /\ thrown' = TRUE
    /\ last' = Event(op, s, NoData)
    /\ emitted' = {}
    /\ scn' = Advance(scn, last')
    /\ UNCHANGED <<opened, open, rooms, onlineUsers, activeCalls, ringing>>

\* io.on("connection"): the socket gets its id with the "me" event.
Connection(n) ==
    /\ ~thrown
    /\ opened < n
    /\ opened' = opened + 1
    /\ open' = open \cup {100 + opened'}
    /\ emitted' = {Ev("me", 100 + opened', None, <<>>)}
    /\ last' = Event("connection", 100 + opened', NoData)
    /\ scn' = Advance(scn, last')
    /\ UNCHANGED <<rooms, onlineUsers, activeCalls, thrown, ringing>>

\* Variant of JoinUsers that skips the lookup of an existing entry.
JoinUsers_AlwaysPush(list, user, s) ==
    Append(list, [userId |-> user.id, name |-> user.name, socketId |-> s])

\* The presence list after a valid join of `user` on socket s.
JoinUsers(list, user, s) ==
    LET i == FindUser(list, user.id)
    IN  IF i # 0
        THEN [list EXCEPT ![i].socketId = s]
        ELSE Append(list, [userId |-> user.id, name |-> user.name, socketId |-> s])

\* The guard of the join handler: !user || !user.id
JoinInvalid(user) == ~user.present \/ user.id = None

\* Inputs: payloads with the identity fields drawn from the given sets.
JoinIn(ids, names) ==
    {Payload(TRUE, id, n, None, None, None) : id \in ids, n \in names}

\* socket.on("join")
Join(s, user) ==
    /\ ~thrown
    /\ s \in open
    /\ last' = Event("join", s, user)
    /\ IF JoinInvalid(user)
       THEN /\ emitted' = {}
            /\ UNCHANGED <<rooms, onlineUsers>>
       ELSE /\ rooms' = [rooms EXCEPT ![s] = @ \cup {user.id}]
            /\ onlineUsers' = JoinUsers(onlineUsers, user, s)
            /\ emitted' = EmitAll(open, "online-users", None, onlineUsers')
    /\ scn' = Advance(scn, last')
    /\ UNCHANGED <<opened, open, activeCalls, thrown, ringing>>

CallIn(callees, froms) ==
    {Payload(TRUE, None, "n1", c, None, f) : c \in callees, f \in froms}

\* activeCalls.has(data.callToUserId) of the call request
IsBusy(calls, userId) == MapHas(calls, userId)

\* Variant of CallEmits that answers an unknown callee with io.emit.
CallEmits_UnavailableToAll(s, data) ==
    LET i == FindUser(onlineUsers, data.callToUserId)
    IN  IF i = 0
        THEN EmitAll(open, "userUnavailable", None, <<>>)
        ELSE IF IsBusy(activeCalls, data.callToUserId)
        THEN {Ev("userBusy", s, None, <<>>)}
               \cup EmitTo(onlineUsers[i].socketId, "incomingCallWhileBusy", data.from)
        ELSE EmitTo(onlineUsers[i].socketId, "callToUser", data.from)

\* Variant of CallEmits that sends the missed-call notice to the caller.
CallEmits_NoticeToCaller(s, data) ==
    LET i == FindUser(onlineUsers, data.callToUserId)
    IN  IF i = 0
        THEN {Ev("userUnavailable", s, None, <<>>)}
        ELSE IF IsBusy(activeCalls, data.callToUserId)
        THEN {Ev("userBusy", s, None, <<>>)}
               \cup EmitTo(s, "incomingCallWhileBusy", data.from)
        ELSE EmitTo(onlineUsers[i].socketId, "callToUser", data.from)

\* Variant of CallEmits that does not return after the busy answer.
CallEmits_BusyFallsThrough(s, data) ==
    LET i == FindUser(onlineUsers, data.callToUserId)
    IN  IF i = 0
        THEN {Ev("userUnavailable", s, None, <<>>)}
        ELSE IF IsBusy(activeCalls, data.callToUserId)
        THEN {Ev("userBusy", s, None, <<>>)}
               \cup EmitTo(onlineUsers[i].socketId, "incomingCallWhileBusy", data.from)
               \cup EmitTo(onlineUsers[i].socketId, "callToUser", data.from)
        ELSE EmitTo(onlineUsers[i].socketId, "callToUser", data.from)

\* Variant of CallEmits that forwards the offer to the room of the callee's
\* user id instead of the callee's registered socket.
CallEmits_ToUserRoom(s, data) ==
    LET i == FindUser(onlineUsers, data.callToUserId)
    IN  IF i = 0
        THEN {Ev("userUnavailable", s, None, <<>>)}
        ELSE IF IsBusy(activeCalls, data.callToUserId)
        THEN {Ev("userBusy", s, None, <<>>)}
               \cup EmitTo(onlineUsers[i].socketId, "incomingCallWhileBusy", data.from)
        ELSE EmitTo(data.callToUserId, "callToUser", data.from)

\* What the call request handler emits, from socket s.
CallEmits(s, data) ==
    LET i == FindUser(onlineUsers, data.callToUserId)
    IN  IF i = 0
        THEN {Ev("userUnavailable", s, None, <<>>)}
        ELSE IF IsBusy(activeCalls, data.callToUserId)
        THEN {Ev("userBusy", s, None, <<>>)}
               \cup EmitTo(onlineUsers[i].socketId, "incomingCallWhileBusy", data.from)
        ELSE EmitTo(onlineUsers[i].socketId, "callToUser", data.from)

\* socket.on("callToUser")
CallToUser(s, data) ==
    /\ ~thrown
    /\ s \in open
    /\ IF ~data.present
       THEN Throw("callToUser", s)
       ELSE /\ last' = Event("callToUser", s, data)
            /\ emitted' = CallEmits(s, data)
            /\ ringing' = Offered(ringing, s, emitted')
            /\ UNCHANGED <<opened, open, rooms, onlineUsers, activeCalls, thrown>>
            /\ scn' = Advance(scn, last')

ToFromIn(tos, froms) ==
    {Payload(TRUE, None, "n1", None, t, f) : t \in tos, f \in froms}

\* Variant of StartCall that records the call only when the target
\* connection is open.
StartCall_OnlyLive(calls, data, s) ==
    IF data.to \in open
    THEN MapSet(MapSet(calls, data.from, [with |-> data.to, socketId |-> s]),
                data.to, [with |-> data.from, socketId |-> data.to])
    ELSE calls

\* The Map after the two activeCalls.set of an accept handled on socket s.
StartCall(calls, data, s) ==
    MapSet(MapSet(calls, data.from, [with |-> data.to, socketId |-> s]),
           data.to, [with |-> data.from, socketId |-> data.to])

\* socket.on("answeredCall")
AnsweredCall(s, data) ==
    /\ ~thrown
    /\ s \in open
    /\ Nameable(data)
    /\ IF ~data.present
       THEN Throw("answeredCall", s)
       ELSE /\ last' = Event("answeredCall", s, data)
            /\ emitted' = EmitTo(data.to, "callAccepted", data.from)
            /\ activeCalls' = StartCall(activeCalls, data, s)
            /\ ringing' = Answered(ringing, s)
            /\ UNCHANGED <<opened, open, rooms, onlineUsers, thrown>>
            /\ scn' = Advance(scn, last')

\* Variant of RejectCall that also clears the Ledger keys of its payload, as
\* the call-ended handler does.
RejectCall_ClearsLedger(s, data) ==
    /\ ~thrown
    /\ s \in open
    /\ Nameable(data)
    /\ IF ~data.present
       THEN Throw("reject-call", s)
       ELSE /\ last' = Event("reject-call", s, data)
            /\ emitted' = EmitTo(data.to, "callRejected", None)
            /\ activeCalls' = MapDelete(MapDelete(activeCalls, data.from), data.to)
            /\ ringing' = Answered(ringing, s)
            /\ UNCHANGED <<opened, open, rooms, onlineUsers, thrown>>
            /\ scn' = Advance(scn, last')

\* socket.on("reject-call")
RejectCall(s, data) ==
    /\ ~thrown
    /\ s \in open
    /\ Nameable(data)
    /\ IF ~data.present
       THEN Throw("reject-call", s)
       ELSE /\ last' = Event("reject-call", s, data)
            /\ emitted' = EmitTo(data.to, "callRejected", None)
            /\ ringing' = Answered(ringing, s)
            /\ UNCHANGED <<opened, open, rooms, onlineUsers, activeCalls, thrown>>
            /\ scn' = Advance(scn, last')

\* The Map after the two activeCalls.delete of the call-ended handler.
EndCall(calls, data) == MapDelete(MapDelete(calls, data.from), data.to)

\* socket.on("call-ended")
CallEnded(s, data) ==
    /\ ~thrown
    /\ s \in open
    /\ Nameable(data)
    /\ IF ~data.present
       THEN Throw("call-ended", s)
       ELSE /\ last' = Event("call-ended", s, data)
            /\ emitted' = EmitTo(data.to, "callEnded", None)
            /\ activeCalls' = EndCall(activeCalls, data)
            /\ ringing' = Cancelled(ringing, s)
            /\ UNCHANGED <<opened, open, rooms, onlineUsers, thrown>>
            /\ scn' = Advance(scn, last')

\* The Map after the disconnect handler reconciled it for socket s.
EndAllFor(calls, list, s) ==
    LET i == FindSocket(list, s)
    IN  IF i = 0 THEN calls
        ELSE LET own == MapDelete(calls, list[i].userId)
             IN  [k \in {x \in DOMAIN own : own[x].with # list[i].userId} |-> own[k]]

\* Variant of RemoveSocket that removes only the entry the handler resolved
\* with find.
RemoveSocket_FirstOnly(list, s) ==
    LET i == FindSocket(list, s)
    IN  IF i = 0 THEN list
        ELSE SubSeq(list, 1, i - 1) \o SubSeq(list, i + 1, Len(list))

\* Variant of RemoveSocket that removes the entries of the users the socket
\* joined as, whichever connection they are registered on now.
RemoveSocket_ByUser(list, s) == SelectSeq(list, LAMBDA u : u.userId \notin rooms[s])

\* onlineUsers.filter((user) => user.socketId !== socket.id)
RemoveSocket(list, s) == SelectSeq(list, LAMBDA u : u.socketId # s)

\* socket.on("disconnect"): the socket has left its rooms and the namespace
\* when the handler runs; last.left keeps the rooms it left.
Disconnect(s) ==
    /\ ~thrown
    /\ s \in open
    /\ open' = open \ {s}
    /\ rooms' = [rooms EXCEPT ![s] = {}]
    /\ activeCalls' = EndAllFor(activeCalls, onlineUsers, s)
    /\ onlineUsers' = RemoveSocket(onlineUsers, s)
    /\ emitted' = EmitAll(open', "online-users", None, onlineUsers')
                   \cup EmitAll(open', "discounnectUser", s, <<>>)
    /\ last' = [Event("disconnect", s, NoData) EXCEPT !.left = rooms[s]]
    /\ ringing' = Cancelled(ringing, s)
    /\ scn' = Advance(scn, last')
    /\ UNCHANGED <<opened, thrown>>

\* The events of at most n connections, their payloads drawn from the sets.
NextOver(n, joins, calls, accepts, rejects, ends) ==
    \/ Connection(n)
    \/ \E s \in Sockets, user \in joins : Join(s, user)
    \/ \E s \in Sockets, data \in calls : CallToUser(s, data)
    \/ \E s \in Sockets, data \in accepts : AnsweredCall(s, data)
    \/ \E s \in Sockets, data \in rejects : RejectCall(s, data)
    \/ \E s \in Sockets, data \in ends : CallEnded(s, data)
    \/ \E s \in Sockets : Disconnect(s)

\* A payload with every identity field missing.
Junk == ToFromIn({None}, {None})

\* Presence: every join and disconnect, among calls, accepts, rejects and
\* ends that name nobody.
Next ==
    NextOver(MaxSockets, JoinIn(Users \cup {None}, {"n1"}) \cup {NoData},
             CallIn({None}, {None}), Junk, Junk, Junk)

Spec == Init /\ [][Next]_vars

\* Presence with display names and with missing payloads.
NextNames ==
    NextOver(MaxSockets, JoinIn(Users \cup {None}, Names) \cup {NoData},
             CallIn({None}, {None}) \cup {NoData}, Junk \cup {NoData},
             Junk \cup {NoData}, Junk \cup {NoData})

SpecNames == Init /\ [][NextNames]_vars

\* Busy callees: user 1 joins and is made busy by accepts naming it; every
\* socket calls every user.
NextBusy ==
    NextOver(MaxSockets, JoinIn({1}, {"n1"}), CallIn(Users, Users),
             ToFromIn({None}, {1}), Junk, ToFromIn({None}, {1}))

SpecBusy == Init /\ [][NextBusy]_vars

\* Calls between two connections: accepts and ends naming any issued
\* connection and any user.
NextCalls ==
    NextOver(MaxSockets - 1, JoinIn(Users, {"n1"}), CallIn({2}, {1}),
             ToFromIn(Sockets, Users), Junk \cup {NoData},
             ToFromIn(Sockets, Users \cup {None}))

SpecCalls == Init /\ [][NextCalls]_vars

\* Membership: two connections join as any user, among events that name
\* nobody.
NextJoin ==
    NextOver(MaxSockets - 1, JoinIn(Users, {"n1"}), CallIn({None}, {None}),
             Junk, Junk, Junk)

SpecJoin == Init /\ [][NextJoin]_vars

\* Forwarding: user 1 joins and is called; accepts and rejects name any
\* connection, open or closed.
NextForward ==
    NextOver(MaxSockets - 1, JoinIn({1}, {"n1"}), CallIn({1}, {1}),
             ToFromIn(Sockets, {1}), ToFromIn(Sockets, {None}), Junk)

SpecForward == Init /\ [][NextForward]_vars

----------------------------------------------------------------------------
(* Helpers of the properties *)

\* The entries of a presence list with the given user id.
EntriesOf(list, u) == {i \in 1..Len(list) : list[i].userId = u}

\* The last event was a join that passed the validation.
ValidJoin(ev) == ev.op = "join" /\ ~JoinInvalid(ev.data)

\* The events of one name in a set of delivered events.
Named(evs, event) == {e \in evs : e.event = event}

----------------------------------------------------------------------------
(* C1: the Registry holds at most one entry per userId, and the entry's      *)
(* connectionId is the connection of the most recent join for that userId:   *)
(* a valid join leaves its user's entry on the joining socket, and no other  *)
(* event creates an entry or changes an entry's connectionId.                *)
C1_Step ==
    /\ \A u \in Users : Cardinality(EntriesOf(onlineUsers', u)) <= 1
    /\ ValidJoin(last') =>
          \E i \in EntriesOf(onlineUsers', last'.data.id) :
              onlineUsers'[i].socketId = last'.socket
    /\ \A i \in 1..Len(onlineUsers') :
          \/ ValidJoin(last') /\ last'.data.id = onlineUsers'[i].userId
          \/ \E j \in EntriesOf(onlineUsers, onlineUsers'[i].userId) :
                onlineUsers[j].socketId = onlineUsers'[i].socketId

C1_OneEntryPerUserAtLatestJoin == [][C1_Step]_vars

\* Witness: a user re-joined from a second connection while the first, which
\* joined as that user, is still connected; the entry names the second.
C1_Witness ==
    /\ ValidJoin(last)
    /\ \E t \in open \ {last.socket} : last.data.id \in rooms[t]
    /\ \E i \in EntriesOf(onlineUsers, last.data.id) :
          onlineUsers[i].socketId = last.socket
    /\ Len(onlineUsers) = 2

(* C6: every online-users broadcast carries exactly the Registry contents    *)
(* at the moment of the broadcast; one reaches every open connection after   *)
(* every valid join, every disconnect and every change of the Registry; and  *)
(* no broadcast contains an entry of a connection that was removed.          *)
C6_Step ==
    /\ \A e \in Named(emitted', "online-users") :
          /\ e.users = onlineUsers'
          /\ e.to \in open'
          /\ \A i \in 1..Len(e.users) : e.users[i].socketId \in open'
    /\ (ValidJoin(last') \/ last'.op = "disconnect" \/ onlineUsers' # onlineUsers) =>
          \A t \in open' : \E e \in Named(emitted', "online-users") : e.to = t

C6_BroadcastIsRegistrySnapshot == [][C6_Step]_vars

\* Witness: a connection disconnected while two other connections, one of
\* them registered, stay open, and both get the new list.
C6_Witness ==
    /\ last.op = "disconnect"
    /\ Cardinality(open) = 2
    /\ Len(onlineUsers) = 1
    /\ \A t \in open : Ev("online-users", t, None, onlineUsers) \in emitted

(* C8: an inbound event (join, call request, accept, end) whose payload is   *)
(* absent or lacks a required identity field (userId, calleeId, callerId)    *)
(* is dropped: the handler raises no error and leaves Registry and Ledger    *)
(* unchanged.                                                                *)
MissingIdentity(ev) ==
    \/ /\ ev.op \in {"join", "callToUser", "answeredCall", "call-ended"}
       /\ ~ev.data.present
    \/ ev.op = "join" /\ ev.data.id = None
    \/ ev.op = "callToUser" /\ (ev.data.callToUserId = None \/ ev.data.from = None)
    \/ ev.op = "answeredCall" /\ ev.data.from = None

C8_MissingIdentityDropped ==
    [][MissingIdentity(last') =>
          ~thrown' /\ onlineUsers' = onlineUsers /\ activeCalls' = activeCalls]_vars

(* C10: a join for a userId that already has a Registry entry overwrites     *)
(* the entry's connectionId and its displayName with those of the new join.  *)
C10_RejoinOverwritesName ==
    ValidJoin(last) =>
        \E i \in EntriesOf(onlineUsers, last.data.id) :
            /\ onlineUsers[i].socketId = last.socket
            /\ onlineUsers[i].name = last.data.name

----------------------------------------------------------------------------
(* Helpers of the call properties *)

\* The last event was a call request with a payload.
CallRequest(ev) == ev.op = "callToUser" /\ ev.data.present

\* The Registry connection of user u, None if u has no entry.
ConnOf(list, u) ==
    LET i == FindUser(list, u)
    IN  IF i = 0 THEN None ELSE list[i].socketId

(* C2: a call request whose calleeId is not in the Registry yields exactly   *)
(* one user-unavailable event, to the requesting connection, and nothing     *)
(* else: no event to any other connection, Registry and Ledger unchanged.    *)
C2_Step ==
    (CallRequest(last') /\ EntriesOf(onlineUsers, last'.data.callToUserId) = {}) =>
        /\ emitted' = {Ev("userUnavailable", last'.socket, None, <<>>)}
        /\ onlineUsers' = onlineUsers
        /\ activeCalls' = activeCalls

C2_UnknownCalleeUnavailable == [][C2_Step]_vars

\* Witness: with another user registered and two connections open, a
\* request for an unregistered user got user-unavailable.
C2_Witness ==
    /\ CallRequest(last)
    /\ last.data.callToUserId \in Users
    /\ EntriesOf(onlineUsers, last.data.callToUserId) = {}
    /\ Len(onlineUsers) = 1
    /\ Cardinality(open) >= 2
    /\ emitted = {Ev("userUnavailable", last.socket, None, <<>>)}

(* C3: a call request toward a registered userId that has a Ledger record    *)
(* yields exactly user-busy to the requesting connection and                 *)
(* incoming-call-while-busy, naming the caller, to the busy user's current   *)
(* connection; no call-to-user is emitted and the Ledger is unchanged.       *)
C3_Step ==
    (/\ CallRequest(last')
     /\ EntriesOf(onlineUsers, last'.data.callToUserId) # {}
     /\ IsBusy(activeCalls, last'.data.callToUserId)) =>
        /\ emitted' =
              {Ev("userBusy", last'.socket, None, <<>>),
               Ev("incomingCallWhileBusy",
                  ConnOf(onlineUsers, last'.data.callToUserId), last'.data.from, <<>>)}
        /\ activeCalls' = activeCalls

C3_BusyCalleeBusy == [][C3_Step]_vars

\* Witness: a busy registered user was called from another connection, which
\* got user-busy while the busy user's connection got the missed-call notice.
C3_Witness ==
    /\ CallRequest(last)
    /\ IsBusy(activeCalls, last.data.callToUserId)
    /\ ConnOf(onlineUsers, last.data.callToUserId) \notin {None, last.socket}
    /\ Ev("userBusy", last.socket, None, <<>>) \in emitted
    /\ \E e \in Named(emitted, "incomingCallWhileBusy") :
          e.to = ConnOf(onlineUsers, last.data.callToUserId) /\ e.from = last.data.from

(* C7 as stated: once a call-to-user offer reached callee B and B has not    *)
(* accepted, rejected, ended or disconnected, a call request from a          *)
(* different caller toward B delivers no second call-to-user to B.           *)
C7_NoOverlappingOffers ==
    CallRequest(last) =>
        \A e \in Named(emitted, "callToUser") :
            \/ e.to = last.socket
            \/ ringing[e.to] \in {last.socket, e.to}

(* C7 as amended: only a Ledger record shields a callee - a call request     *)
(* toward a user for whom isBusy holds delivers no call-to-user to anyone.   *)
C7_BusyCalleeGetsNoOffer ==
    (CallRequest(last) /\ IsBusy(activeCalls, last.data.callToUserId)) =>
        Named(emitted, "callToUser") = {}

\* Witness: a registered busy user was called and no offer was delivered.
C7_Witness ==
    /\ CallRequest(last)
    /\ IsBusy(activeCalls, last.data.callToUserId)
    /\ ConnOf(onlineUsers, last.data.callToUserId) \in open \ {last.socket}
    /\ Named(emitted, "callToUser") = {}
    /\ Named(emitted, "userBusy") # {}

----------------------------------------------------------------------------
(* Helpers of the Ledger properties *)

\* Event ev is an accept sent by callee d's connection whose
\* targetConnectionId is caller c's connection.
AcceptBetween(ev, list, c, d) ==
    /\ ev.op = "answeredCall" /\ ev.data.present
    /\ ConnOf(list, c) # None /\ ConnOf(list, d) # None
    /\ ConnOf(list, c) # ConnOf(list, d)
    /\ ev.socket = ConnOf(list, d)
    /\ ev.data.to = ConnOf(list, c)

\* Event ev is a call-end sent by c's connection toward d's connection.
EndBetween(ev, list, c, d) ==
    /\ ev.op = "call-ended" /\ ev.data.present
    /\ ev.socket = ConnOf(list, c)
    /\ ev.data.to = ConnOf(list, d)

\* The names the code gives a user in the Ledger: its id and the handle of
\* its Registry connection.
Handles(list, u) == {u, ConnOf(list, u)} \ {None}

\* A record is keyed by user u or names u as its peer.
InLedger(calls, list, u) ==
    \E k \in DOMAIN calls : k \in Handles(list, u) \/ calls[k].with \in Handles(list, u)

\* The Ledger holds the two records of an accept that d's connection sent
\* with targetConnectionId = c's connection.
AcceptedBetween(calls, list, c, d) ==
    /\ ConnOf(list, c) # None /\ ConnOf(list, d) # None
    /\ ConnOf(list, c) # ConnOf(list, d)
    /\ ConnOf(list, c) \in DOMAIN calls
    /\ \E f \in DOMAIN calls :
          /\ calls[f] = [with |-> ConnOf(list, c), socketId |-> ConnOf(list, d)]
          /\ calls[ConnOf(list, c)].with = f

(* C4: after an accept sent by the callee's connection with                  *)
(* targetConnectionId = the caller's connection, isBusy (the userId-keyed    *)
(* check of the call request) is true for the caller's and for the callee's  *)
(* userId; and a call-end by the caller right after makes it false for both. *)
C4_Step ==
    \A c \in Users : \A d \in Users \ {c} :
        /\ AcceptBetween(last', onlineUsers, c, d) =>
              IsBusy(activeCalls', c) /\ IsBusy(activeCalls', d)
        /\ (AcceptBetween(last, onlineUsers, c, d)
              /\ EndBetween(last', onlineUsers, c, d)) =>
              ~IsBusy(activeCalls', c) /\ ~IsBusy(activeCalls', d)

C4_AcceptMakesBothBusy == [][C4_Step]_vars

(* C5: after the disconnect of a user U who takes part in an accepted call,  *)
(* the Ledger holds no record for U and no record of another user naming U   *)
(* as its peer (U named by its id or by the handle of its connection, the    *)
(* two names the accept writes).                                             *)
C5_Step ==
    \A u \in Users : \A v \in Users \ {u} :
        (/\ last'.op = "disconnect"
         /\ ConnOf(onlineUsers, u) = last'.socket
         /\ \/ AcceptedBetween(activeCalls, onlineUsers, u, v)
            \/ AcceptedBetween(activeCalls, onlineUsers, v, u)) =>
            ~InLedger(activeCalls', onlineUsers, u)

C5_DisconnectLeavesNoRecord == [][C5_Step]_vars

(* C9: the scenario A joins, B joins, A calls B, B accepts, A ends, B        *)
(* disconnects: after the accept A has received call-accepted and the        *)
(* Ledger holds a record for A naming B and one for B naming A; after the    *)
(* end B has received call-ended and the Ledger is empty; after the          *)
(* disconnect A has received online-users holding only A.                    *)
C9_Scenario ==
    /\ scn = 6 =>
          /\ \E e \in Named(emitted, "callAccepted") : e.to = 101
          /\ \E k \in DOMAIN activeCalls :
                k \in {1, 101} /\ activeCalls[k].with \in {2, 102}
          /\ \E k \in DOMAIN activeCalls :
                k \in {2, 102} /\ activeCalls[k].with \in {1, 101}
    /\ scn = 7 =>
          /\ \E e \in Named(emitted, "callEnded") : e.to = 102
          /\ DOMAIN activeCalls = {}
    /\ scn = 8 =>
          \E e \in Named(emitted, "online-users") :
              /\ e.to = 101
              /\ Len(e.users) = 1 /\ e.users[1].userId = 1

----------------------------------------------------------------------------
(* C11: Ledger symmetry - in every state, whenever the Ledger holds a        *)
(* record for A naming peer B, it also holds a record for B naming peer A.   *)
C11_LedgerSymmetric ==
    \A k \in DOMAIN activeCalls :
        /\ MapHas(activeCalls, activeCalls[k].with)
        /\ activeCalls[activeCalls[k].with].with = k

\* The names under which the sender of event ev can have a record: the
\* callerId of its payload, its connection, and the user registered on it.
Ender(list, ev) ==
    LET i == FindSocket(list, ev.socket)
    IN  ({ev.data.from, ev.socket} \cup (IF i = 0 THEN {} ELSE {list[i].userId}))
          \ {None}

(* C12: a call-end removes only the record of the ending user and the        *)
(* records naming the ending user as peer; every other record is left        *)
(* unchanged, and when the ending user has no record the Ledger is           *)
(* unchanged.                                                                *)
C12_Step ==
    (last'.op = "call-ended" /\ last'.data.present) =>
        /\ \A k \in DOMAIN activeCalls :
              (/\ k \notin Ender(onlineUsers, last')
               /\ activeCalls[k].with \notin Ender(onlineUsers, last')) =>
                  /\ MapHas(activeCalls', k)
                  /\ activeCalls'[k] = activeCalls[k]
        /\ (Ender(onlineUsers, last') \cap DOMAIN activeCalls = {}) =>
              activeCalls' = activeCalls

C12_EndRemovesOnlyOwnCall == [][C12_Step]_vars

(* C13: Ledger records are created only after a call request was forwarded   *)
(* as call-to-user to the accepting connection and not since rejected,       *)
(* ended or cancelled: an accept from a connection with no pending offer     *)
(* leaves the Ledger unchanged (makes nobody busy).                          *)
C13_Step ==
    (/\ last'.op = "answeredCall" /\ last'.data.present
     /\ ringing[last'.socket] = None) =>
        activeCalls' = activeCalls

C13_AcceptNeedsPendingOffer == [][C13_Step]_vars

\* Event ev is a call request toward a registered user with no Ledger record.
FreeCall(ev, list, calls) ==
    /\ CallRequest(ev)
    /\ EntriesOf(list, ev.data.callToUserId) # {}
    /\ ~IsBusy(calls, ev.data.callToUserId)

\* The one offer a free call delivers: call-to-user, naming the caller, at
\* the callee's Registry connection.
OfferOf(ev, list) ==
    Ev("callToUser", ConnOf(list, ev.data.callToUserId), ev.data.from, <<>>)

(* C14 as stated: a call request toward a registered, non-busy callee emits  *)
(* exactly one call-to-user, addressed to the callee's current connection,   *)
(* emits nothing to the caller's connection, and leaves Registry and Ledger  *)
(* unchanged.                                                                *)
C14_StatedStep ==
    FreeCall(last', onlineUsers, activeCalls) =>
        /\ emitted' = {OfferOf(last', onlineUsers)}
        /\ \A e \in emitted' : e.to # last'.socket
        /\ onlineUsers' = onlineUsers
        /\ activeCalls' = activeCalls

C14_FreeCallNothingToCaller == [][C14_StatedStep]_vars

(* C14 as amended: a call request toward a registered, non-busy callee       *)
(* emits exactly one event, the call-to-user addressed to the callee's       *)
(* current connection, and leaves Registry and Ledger unchanged; the caller  *)
(* gets an event only when its own connection is the callee's current one.   *)
C14_Step ==
    FreeCall(last', onlineUsers, activeCalls) =>
        /\ emitted' = {OfferOf(last', onlineUsers)}
        /\ \A e \in emitted' :
              e.to = last'.socket =>
                  ConnOf(onlineUsers, last'.data.callToUserId) = last'.socket
        /\ onlineUsers' = onlineUsers
        /\ activeCalls' = activeCalls

C14_FreeCallOneOffer == [][C14_Step]_vars

\* Witness: the callee re-joined from a second connection while the first is
\* still open; a third connection called, and the only event delivered is
\* the offer at the second connection.
C14_Witness ==
    /\ FreeCall(last, onlineUsers, activeCalls)
    /\ ConnOf(onlineUsers, last.data.callToUserId) # last.socket
    /\ \E t \in open \ {last.socket, ConnOf(onlineUsers, last.data.callToUserId)} :
          last.data.callToUserId \in rooms[t]
    /\ emitted = {OfferOf(last, onlineUsers)}

----------------------------------------------------------------------------
(* C15: the disconnect of a connection that is not the current connection    *)
(* of any Registry entry (it never joined, or its user re-joined from a      *)
(* newer connection) leaves Registry and Ledger unchanged.                   *)
C15_Step ==
    (/\ last'.op = "disconnect"
     /\ \A i \in 1..Len(onlineUsers) : onlineUsers[i].socketId # last'.socket) =>
        /\ onlineUsers' = onlineUsers
        /\ activeCalls' = activeCalls

C15_StaleDisconnectChangesNothing == [][C15_Step]_vars

\* Witness: the connection that dropped had joined, as one user only, and
\* that user is now registered on another, open connection and has a Ledger
\* record.
C15_Witness ==
    /\ last.op = "disconnect"
    /\ Cardinality(last.left) = 1
    /\ \E i \in 1..Len(onlineUsers) :
          /\ onlineUsers[i].userId \in last.left
          /\ onlineUsers[i].socketId \in open
          /\ IsBusy(activeCalls, onlineUsers[i].userId)

----------------------------------------------------------------------------
(* C16: a call-reject only forwards call-rejected to the target connection:  *)
(* it changes neither the Ledger nor the Registry, in any state.             *)
C16_Step ==
    last'.op = "reject-call" =>
        /\ activeCalls' = activeCalls
        /\ onlineUsers' = onlineUsers
        /\ last'.data.present =>
              emitted' = {Ev("callRejected", t, None, <<>>) :
                             t \in {last'.data.to} \cap open}

C16_RejectOnlyForwards == [][C16_Step]_vars

\* Witness: a registered user with a Ledger record sent a reject toward
\* another open connection, which got call-rejected.
C16_Witness ==
    /\ last.op = "reject-call"
    /\ last.data.to \in open \ {last.socket}
    /\ \E i \in 1..Len(onlineUsers) :
          /\ onlineUsers[i].socketId = last.socket
          /\ IsBusy(activeCalls, onlineUsers[i].userId)
    /\ MapHas(activeCalls, last.data.to)
    /\ emitted = {Ev("callRejected", last.data.to, None, <<>>)}

(* C17: an accept whose targetConnectionId is not an open connection         *)
(* delivers no event to any connection and raises no error, and still        *)
(* records the call in the Ledger for both the callerId and the target.      *)
C17_Step ==
    (/\ last'.op = "answeredCall" /\ last'.data.present
     /\ last'.data.to \notin open) =>
        /\ emitted' = {}
        /\ ~thrown'
        /\ MapHas(activeCalls', last'.data.from)
        /\ activeCalls'[last'.data.from].with = last'.data.to
        /\ MapHas(activeCalls', last'.data.to)
        /\ activeCalls'[last'.data.to].with = last'.data.from

C17_StaleAcceptStillRecorded == [][C17_Step]_vars

\* Witness: a registered user accepted toward a connection that was issued
\* and has disconnected; nothing was delivered and both records exist.
C17_Witness ==
    /\ last.op = "answeredCall"
    /\ last.data.to \in Issued \ open
    /\ ConnOf(onlineUsers, 1) = last.socket
    /\ emitted = {}
    /\ ~thrown
    /\ {last.data.from, last.data.to} \subseteq DOMAIN activeCalls

----------------------------------------------------------------------------
(* C18: a user who is not in the Registry is never busy - in every state     *)
(* every Ledger key is the userId of a currently registered user.            *)
C18_LedgerKeysRegistered ==
    \A k \in DOMAIN activeCalls : EntriesOf(onlineUsers, k) # {}

(* C19: in every state the connectionId of every Registry entry is an open   *)
(* connection: no entry outlives the connection it points to.                *)
C19_EntriesPointToOpen ==
    \A i \in 1..Len(onlineUsers) : onlineUsers[i].socketId \in open

\* Witness: a connection that had joined as two users dropped while another
\* connection stays open; one of the two users had re-joined there and is
\* the only entry left.
C19_Witness ==
    /\ last.op = "disconnect"
    /\ Cardinality(last.left) = 2
    /\ Len(onlineUsers) = 1
    /\ onlineUsers[1].socketId \in open

(* C20: each connection handle appears in at most one Registry entry, also   *)
(* when one connection sends join under two different userIds.               *)
C20_OneEntryPerConnection ==
    \A i \in 1..Len(onlineUsers) : \A j \in 1..Len(onlineUsers) :
        onlineUsers[i].socketId = onlineUsers[j].socketId => i = j
====
